---- MODULE Spec2Model ----
(***************************************************************************)
(* A model of the DuckDB bridges of capacitor-duckdb:                      *)
(*   src/android/src/main/cpp/duckdb_jni.cpp        (Android, JNI)         *)
(*   src/ios/Sources/CapacitorDuckDbPlugin/duckdb_ios.cpp   (iOS, C ABI)   *)
(*                                                                         *)
(* Text is modelled as sequences of byte values (0..255); a 64-bit integer *)
(* as the big-endian sequence of its bytes, since the values the bridges   *)
(* render do not fit the checker's machine integers.                       *)
(***************************************************************************)
EXTENDS Integers, Sequences, FiniteSets, TLC

(***************************************************************************)
(* Bounds of the model.                                                    *)
(***************************************************************************)
\* the largest 1-based parameter index a bind call is given that the
\* device can still allocate a store for
MaxIndex == 3
\* the largest number of parameters the engine declares for a statement
MaxParams == 2
\* the largest number of rows of an engine result
MaxRows == 1
\* the serializers on their own: the largest numbers of rows and columns
SerMaxRows == 3
SerMaxCols == 2
\* escapeJsonString on its own: the longest text over EscAlphabet
EscMaxLen == 3

(***************************************************************************)
(* The 32-bit int of the index parameter (jint, int).                      *)
(***************************************************************************)
INT_MAX == 2147483647
INT_MIN == (-2147483647) - 1

(***************************************************************************)
(* Sequence helpers.                                                       *)
(***************************************************************************)
RECURSIVE Flatten(_)
Flatten(ss) == IF ss = <<>> THEN <<>> ELSE Head(ss) \o Flatten(Tail(ss))

IsPrefix(p, s) == Len(p) <= Len(s) /\ SubSeq(s, 1, Len(p)) = p

(***************************************************************************)
(* Text literals of the source, as bytes.                                  *)
(***************************************************************************)
TxtOpenArr   == <<91>>                       \* "["
TxtCloseArr  == <<93>>                       \* "]"
TxtOpenObj   == <<123>>                      \* "{"
TxtCloseObj  == <<125>>                      \* "}"
TxtComma     == <<44>>                       \* ","
TxtColon     == <<58>>                       \* ":"
TxtQuote     == <<34>>                       \* '"'
TxtNull      == <<110, 117, 108, 108>>       \* "null"
TxtTrue      == <<116, 114, 117, 101>>       \* "true"
TxtFalse     == <<102, 97, 108, 115, 101>>   \* "false"
TxtErrorPrefix == <<69, 82, 82, 79, 82, 58>> \* "ERROR:"
\* "{\"changes\":"
TxtChanges   == <<123, 34, 99, 104, 97, 110, 103, 101, 115, 34, 58>>

HexDigit(d) == IF d < 10 THEN 48 + d ELSE 87 + d

\* HexEscape of a stream without std::setw(4): the digits unpadded
HexEscapeUnpadded(c) ==
    <<92, 117>> \o (IF c >= 16 THEN <<HexDigit(c \div 16)>> ELSE <<>>)
                \o <<HexDigit(c % 16)>>

\* ss << "\\u" << std::hex << std::setw(4) << std::setfill('0') << int(c)
\* for a byte c in 0x00..0x1f: two hex digits at most, padded to four.
HexEscape(c) == <<92, 117, 48, 48, HexDigit(c \div 16), HexDigit(c % 16)>>

\* one iteration of escapeJsonString's loop: the switch on the byte c
EscapeByte(c) ==
    CASE c = 34 -> <<92, 34>>
      [] c = 92 -> <<92, 92>>
      [] c = 8  -> <<92, 98>>
      [] c = 12 -> <<92, 102>>
      [] c = 10 -> <<92, 110>>
      [] c = 13 -> <<92, 114>>
      [] c = 9  -> <<92, 116>>
      [] OTHER  -> IF 0 <= c /\ c <= 31 THEN HexEscape(c) ELSE <<c>>

escapeJsonString(str) ==
    TxtQuote \o Flatten([k \in 1..Len(str) |-> EscapeByte(str[k])]) \o TxtQuote

(***************************************************************************)
(* operator<< of an integer: the decimal literal of a 64-bit value given   *)
(* as eight big-endian bytes.                                              *)
(***************************************************************************)
IsZero(bs) == \A k \in 1..Len(bs) : bs[k] = 0

\* long division of a big-endian byte string by ten: <<quotient, remainder>>
RECURSIVE DivTen(_, _, _)
DivTen(bs, k, r) ==
    IF k > Len(bs) THEN <<<<>>, r>>
    ELSE LET cur  == r * 256 + bs[k]
             rest == DivTen(bs, k + 1, cur % 10)
         IN  <<(<<cur \div 10>>) \o rest[1], rest[2]>>

RECURSIVE Digits(_)
Digits(bs) ==
    IF IsZero(bs) THEN <<>>
    ELSE LET qr == DivTen(bs, 1, 0) IN Digits(qr[1]) \o <<48 + qr[2]>>

\* two's complement negation of a big-endian byte string
RECURSIVE AddOne(_, _)
AddOne(bs, k) ==
    IF k = 0 THEN bs
    ELSE IF bs[k] = 255 THEN AddOne([bs EXCEPT ![k] = 0], k - 1)
    ELSE [bs EXCEPT ![k] = bs[k] + 1]

Negate(bs) == AddOne([k \in 1..Len(bs) |-> 255 - bs[k]], Len(bs))

\* UnsignedDecimal of a serializer that streams the value as int64_t
UnsignedDecimalAsSigned(bs) ==
    IF bs[1] >= 128 THEN <<45>> \o Digits(Negate(bs))
    ELSE IF IsZero(bs) THEN <<48>> ELSE Digits(bs)

\* json << uint64_t
UnsignedDecimal(bs) == IF IsZero(bs) THEN <<48>> ELSE Digits(bs)

\* json << int64_t
SignedDecimal(bs) ==
    IF bs[1] >= 128 THEN <<45>> \o UnsignedDecimal(Negate(bs))
    ELSE UnsignedDecimal(bs)

\* val.GetValue<int64_t>() of a signed column value of 1, 2, 4 or 8 bytes
SignExtend(bs) ==
    [k \in 1..(8 - Len(bs)) |-> IF bs[1] >= 128 THEN 255 ELSE 0] \o bs

\* val.GetValue<uint64_t>() of an unsigned column value of 1, 2, 4 or 8 bytes
ZeroExtend(bs) == [k \in 1..(8 - Len(bs)) |-> 0] \o bs

(***************************************************************************)
(* Engine results.  A column type is one of the engine's LogicalTypeId     *)
(* names; a cell is [null, v] with v the value's bytes: big-endian, of     *)
(* the type's width, for the integer types; <<0>> or <<1>> for BOOLEAN;    *)
(* <<k>>, an entry of FloatTexts, for FLOAT and DOUBLE; the text of        *)
(* Value::ToString() for every other type.                                 *)
(***************************************************************************)
SignedTypes   == {"TINYINT", "SMALLINT", "INTEGER", "BIGINT"}
UnsignedTypes == {"UTINYINT", "USMALLINT", "UINTEGER", "UBIGINT"}
FloatTypes    == {"FLOAT", "DOUBLE"}

\* json << float / double with the stream's default formatting (%g, six
\* significant digits): 1.5, 2, 1234567 and infinity
FloatTexts == << <<49, 46, 53>>, <<50>>,
                 <<49, 46, 50, 51, 52, 53, 55, 101, 43, 48, 54>>,
                 <<105, 110, 102>> >>

\* the switch (type.id()) of the serializers, for a value that is not null
EncodeNonNull(type, v) ==
    CASE type = "BOOLEAN"       -> (IF v[1] # 0 THEN TxtTrue ELSE TxtFalse)
      [] type \in SignedTypes   -> SignedDecimal(SignExtend(v))
      [] type \in UnsignedTypes -> UnsignedDecimal(ZeroExtend(v))
      [] type \in FloatTypes    -> FloatTexts[v[1]]
      [] OTHER                  -> escapeJsonString(v)

\* EncodeValue with the null test inside the switch's numeric cases only:
\* a null of any other type goes through val.ToString(), "NULL", quoted
EncodeValueNullByType(type, cell) ==
    IF cell.null
    THEN (IF type \in {"BOOLEAN"} \cup SignedTypes \cup UnsignedTypes
                      \cup FloatTypes
          THEN TxtNull ELSE escapeJsonString(<<78, 85, 76, 76>>))
    ELSE EncodeNonNull(type, cell.v)

\* if (val.IsNull()) json << "null"; else switch ...
EncodeValue(type, cell) ==
    IF cell.null THEN TxtNull ELSE EncodeNonNull(type, cell.v)

\* for (size_t col = 0; col < column_count; col++) { ... }, from column col
\* (1-based here) on, appended to json
RECURSIVE ColumnLoop(_, _, _, _, _)
ColumnLoop(names, types, cells, col, json) ==
    IF col > Len(types) THEN json
    ELSE ColumnLoop(names, types, cells, col + 1,
                    json \o (IF col > 1 THEN TxtComma ELSE <<>>)
                         \o escapeJsonString(names[col]) \o TxtColon
                         \o EncodeValue(types[col], cells[col]))

\* json << "{"; the column loop; json << "}"
RecordJson(names, types, cells, json) ==
    ColumnLoop(names, types, cells, 1, json \o TxtOpenObj) \o TxtCloseObj

\* resultToJson of the Android bridge (MaterializedQueryResult): the loop
\* for (size_t row = 0; row < row_count; row++), from row `row` on
RECURSIVE MaterializedRowLoop(_, _, _, _, _)
\* MaterializedRowLoop with the comma written after every record
MaterializedRowLoopTrailingComma(names, types, rows, row, json) ==
    IF row > Len(rows) THEN json
    ELSE MaterializedRowLoop(names, types, rows, row + 1,
             RecordJson(names, types, rows[row], json) \o TxtComma)

MaterializedRowLoop(names, types, rows, row, json) ==
    IF row > Len(rows) THEN json
    ELSE MaterializedRowLoop(names, types, rows, row + 1,
             RecordJson(names, types, rows[row],
                        json \o (IF row > 1 THEN TxtComma ELSE <<>>)))

MaterializedToJson(names, types, rows) ==
    MaterializedRowLoop(names, types, rows, 1, TxtOpenArr) \o TxtCloseArr

\* The inner loop of the chunked serializers over one chunk's rows, with
\* the first_row flag: <<json, first_row>>
RECURSIVE ChunkRowLoop(_, _, _, _, _, _)
\* ChunkRowLoop with the comma test of the materialized serializer,
\* if (row > 0), on the row's index within its chunk
ChunkRowLoopCommaByIndex(names, types, chunk, row, json, first_row) ==
    IF row > Len(chunk) THEN <<json, first_row>>
    ELSE ChunkRowLoop(names, types, chunk, row + 1,
             RecordJson(names, types, chunk[row],
                        json \o (IF row > 1 THEN TxtComma ELSE <<>>)),
             FALSE)

ChunkRowLoop(names, types, chunk, row, json, first_row) ==
    IF row > Len(chunk) THEN <<json, first_row>>
    ELSE ChunkRowLoop(names, types, chunk, row + 1,
             RecordJson(names, types, chunk[row],
                        json \o (IF ~first_row THEN TxtComma ELSE <<>>)),
             FALSE)

\* while ((chunk = result->Fetch()) != nullptr && chunk->size() > 0): the
\* k-th and later Fetch() calls; fetches[k] is what the k-th call returns,
\* [ptr |-> FALSE] for nullptr, and every call after the last returns nullptr
RECURSIVE FetchLoop(_, _, _, _, _, _)
FetchLoop(names, types, fetches, k, json, first_row) ==
    IF k > Len(fetches) THEN json
    ELSE IF ~fetches[k].ptr THEN json
    ELSE IF ~(Len(fetches[k].rows) > 0) THEN json
    ELSE LET done == ChunkRowLoop(names, types, fetches[k].rows, 1,
                                  json, first_row)
         IN  FetchLoop(names, types, fetches, k + 1, done[1], done[2])

\* queryResultToJson of the Android bridge and resultToJson of the iOS
\* bridge (QueryResult, chunked fetch)
ChunkedToJson(names, types, fetches) ==
    FetchLoop(names, types, fetches, 1, TxtOpenArr, TRUE) \o TxtCloseArr

(***************************************************************************)
(* The binding store: duckdb::vector<duckdb::Value> bindings.  A value is  *)
(* <<tag, bytes>>.                                                         *)
(***************************************************************************)
NullValue        == <<"null", <<>>>>                     \* duckdb::Value()
StringValue(str) == <<"string", str>>                    \* duckdb::Value(strVal)
BigintValue(bs)  == <<"bigint", bs>>                     \* Value::BIGINT(value)
DoubleValue(k)   == <<"double", <<k>>>>                  \* Value::DOUBLE(value)
BooleanValue(b)  == <<"boolean", <<IF b THEN 1 ELSE 0>>>> \* Value::BOOLEAN(value)

\* bindings.resize(n): truncates, or appends default-constructed (null) values
VectorResize(bindings, n) ==
    IF n <= Len(bindings) THEN SubSeq(bindings, 1, n)
    ELSE bindings \o [k \in 1..(n - Len(bindings)) |-> NullValue]

\* resize(n) throws (std::bad_alloc, std::length_error) when the device
\* cannot hold n values: here, for the one index input beyond MaxIndex
ResizeThrows(n) == n > MaxIndex

\* StoreAt with the resize off by one: resize(idx + 2)
StoreAtOverGrow(bindings, idx, value) ==
    [(IF idx >= Len(bindings) THEN VectorResize(bindings, idx + 2)
      ELSE bindings) EXCEPT ![idx + 1] = value]

\* StoreAt that binds only a slot that holds no value yet
StoreAtIfAbsent(bindings, idx, value) ==
    IF idx < Len(bindings) /\ bindings[idx + 1] # NullValue THEN bindings
    ELSE [(IF idx >= Len(bindings) THEN VectorResize(bindings, idx + 1)
           ELSE bindings) EXCEPT ![idx + 1] = value]

\* if (idx >= size) resize(idx + 1); bindings[idx] = value;  (idx 0-based)
StoreAt(bindings, idx, value) ==
    [(IF idx >= Len(bindings) THEN VectorResize(bindings, idx + 1)
      ELSE bindings) EXCEPT ![idx + 1] = value]

BindReturned(ret, bindings) ==
    [fate |-> "returned", ret |-> ret, bindings |-> bindings]
BindThrown(bindings) ==
    [fate |-> "thrown", ret |-> FALSE, bindings |-> bindings]

\* The body the five Android bind functions share, after the handle check:
\* the set of outcomes the build can produce.  `int idx = index - 1`
\* overflows for index = INT_MIN, which is undefined: the compiler may fold
\* `index - 1 < 0` into `index < 1` (the call returns false), or the
\* subtraction wraps to INT_MAX and resize(idx + 1) is asked for a size no
\* vector can have and throws.
AndroidBind(bindings, index, value) ==
    IF index = INT_MIN
    THEN {BindReturned(FALSE, bindings), BindThrown(bindings)}
    ELSE LET idx == index - 1 IN
         IF idx < 0 THEN {BindReturned(FALSE, bindings)}
         ELSE IF idx >= Len(bindings) /\ ResizeThrows(idx + 1)
         THEN {BindThrown(bindings)}
         ELSE {BindReturned(TRUE, StoreAt(bindings, idx, value))}

\* The body the five iOS bind functions share, after the handle check
IosBind(bindings, index, value) ==
    IF index < 1 THEN {BindReturned(FALSE, bindings)}
    ELSE LET idx == index - 1 IN
         IF idx >= Len(bindings) /\ ResizeThrows(idx + 1)
         THEN {BindThrown(bindings)}
         ELSE {BindReturned(TRUE, StoreAt(bindings, idx, value))}

\* ClearedBindings as bindings.clear()
ClearedBindingsEmptied(bindings) == <<>>

\* ClearedBindings with a loop that starts at the second slot
ClearedBindingsSkipFirst(bindings) ==
    [k \in 1..Len(bindings) |-> IF k = 1 THEN bindings[k] ELSE NullValue]

\* for (auto& binding : wrapper->bindings) binding = duckdb::Value();
ClearedBindings(bindings) == [k \in 1..Len(bindings) |-> NullValue]

(***************************************************************************)
(* Messages of the bridges and of the engine.                              *)
(***************************************************************************)
MsgInvalidStatement == <<73, 110, 118, 97, 108, 105, 100, 32, 115, 116, 97,
    116, 101, 109, 101, 110, 116, 32, 104, 97, 110, 100, 108, 101>>
MsgInvalidConnection == <<73, 110, 118, 97, 108, 105, 100, 32, 99, 111, 110,
    110, 101, 99, 116, 105, 111, 110, 32, 104, 97, 110, 100, 108, 101>>
MsgInvalidDatabase == <<73, 110, 118, 97, 108, 105, 100, 32, 100, 97, 116,
    97, 98, 97, 115, 101, 32, 104, 97, 110, 100, 108, 101>>
MsgIosInvalidConnection == <<73, 110, 118, 97, 108, 105, 100, 32, 99, 111,
    110, 110, 101, 99, 116, 105, 111, 110>>
\* "Invalid SQL string" (Android) and "Invalid SQL" (iOS)
MsgInvalidSqlString == <<73, 110, 118, 97, 108, 105, 100, 32, 83, 81, 76,
    32, 115, 116, 114, 105, 110, 103>>
MsgIosInvalidSql == <<73, 110, 118, 97, 108, 105, 100, 32, 83, 81, 76>>
\* result->GetError() and e.what(): texts of the engine ("oops", "boom")
EngineErrorMsg == <<111, 111, 112, 115>>
EngineWhatMsg  == <<98, 111, 111, 109>>
\* an error text that quotes a value with a NUL byte in it: "o", NUL, "s"
EngineNulMsg   == <<111, 0, 115>>

(***************************************************************************)
(* What the engine can answer to Query and Execute.  kind is "throw" (the  *)
(* call throws), "error" (the result carries an error) or "rows"; the      *)
(* rows come in chunks, and fetchEnd says what Fetch() does once they are  *)
(* delivered: returns nullptr, returns an empty chunk, returns nullptr     *)
(* having recorded an error in the result ("error", a streaming result     *)
(* whose execution fails late), or throws ("throw").                       *)
(***************************************************************************)
RECURSIVE Splits(_)
Splits(rows) ==
    IF rows = <<>> THEN {<<>>}
    ELSE UNION { { <<SubSeq(rows, 1, k)>> \o rest :
                   rest \in Splits(SubSeq(rows, k + 1, Len(rows))) } :
                 k \in 1..Len(rows) }

EngineNames == << <<97>> >>                         \* one column, "a"
EngineTypes == <<"INTEGER">>
EngineRow(k) == << [null |-> FALSE, v |-> <<0, 0, 0, k>>] >>
EngineRows(n) == [k \in 1..n |-> EngineRow(k)]

EngineFailures ==
    { [kind |-> "throw", msg |-> EngineWhatMsg, chunks |-> <<>>,
       fetchEnd |-> "nullptr"],
      [kind |-> "error", msg |-> EngineErrorMsg, chunks |-> <<>>,
       fetchEnd |-> "nullptr"] }

\* a materialized result cannot fail while it is fetched; a streaming one can
FetchEnds(streaming) ==
    IF streaming THEN {"nullptr", "empty", "error", "throw"}
    ELSE {"nullptr", "empty"}

EngineResults(streaming) ==
    EngineFailures \cup
    { [kind |-> "error", msg |-> EngineNulMsg, chunks |-> <<>>,
       fetchEnd |-> "nullptr"] } \cup
    { [kind |-> "rows", msg |-> EngineErrorMsg, chunks |-> c, fetchEnd |-> e] :
      c \in UNION { Splits(EngineRows(n)) : n \in 0..MaxRows },
      e \in FetchEnds(streaming) }

\* what the successive Fetch() calls on a result return
Fetches(res) ==
    [k \in 1..Len(res.chunks) |-> [ptr |-> TRUE, rows |-> res.chunks[k]]]
    \o << [ptr |-> res.fetchEnd = "empty", rows |-> <<>>] >>

\* the rows of a result, as result->GetValue(col, row) and RowCount() see them
ResultRows(res) == Flatten(res.chunks)

\* whether the engine reported an error for the call, at execution or fetch
EngineReportsError(res) ==
    res.kind \in {"throw", "error"} \/ res.fetchEnd \in {"error", "throw"}

(***************************************************************************)
(* What the caller gets back from a string-returning operation.  Android:  *)
(* text is the returned string.  iOS: retNull says the return value is     *)
(* NULL, text is the returned string otherwise, and errSet / err are the   *)
(* caller's error slot after the call (slot: the caller passed one).       *)
(***************************************************************************)
\* std::string::c_str() read as a C string: the bytes before the first NUL
RECURSIVE CString(_)
CString(str) ==
    IF str = <<>> \/ Head(str) = 0 THEN <<>>
    ELSE <<Head(str)>> \o CString(Tail(str))

\* env->NewStringUTF(str.c_str()): the Java string of the C string
NewStringUTF(str) == CString(str)

\* duplicate_string(str): malloc(str.length() + 1), strcpy(result, str.c_str())
duplicate_string(str) == CString(str)

\* errWrites: how many times the call assigned *error_out
AndroidText(text) ==
    [retNull |-> FALSE, text |-> NewStringUTF(text), errSet |-> FALSE,
     err |-> <<>>, errWrites |-> 0]
\* AndroidError of a bridge that returns the message without the sentinel
AndroidErrorBare(msg) == AndroidText(msg)

AndroidError(msg) == AndroidText(TxtErrorPrefix \o msg)
IosText(text) ==
    [retNull |-> FALSE, text |-> duplicate_string(text), errSet |-> FALSE,
     err |-> <<>>, errWrites |-> 0]
\* IosError that returns NULL and leaves the slot alone
IosErrorSilent(msg, slot) ==
    [retNull |-> TRUE, text |-> <<>>, errSet |-> FALSE, err |-> <<>>,
     errWrites |-> 0]

\* if (error_out) *error_out = duplicate_string(msg); return nullptr;
IosError(msg, slot) ==
    [retNull |-> TRUE, text |-> <<>>, errSet |-> slot,
     err |-> IF slot THEN duplicate_string(msg) ELSE <<>>,
     errWrites |-> IF slot THEN 1 ELSE 0]

\* Java_..._executePrepared, from the engine's answer on (try block)
AndroidExecutePreparedResponse(res) ==
    CASE res.kind = "throw" -> AndroidError(res.msg)
      [] res.kind = "error" -> AndroidError(res.msg)
      [] OTHER ->
         IF res.fetchEnd = "throw" THEN AndroidError(EngineWhatMsg)
         ELSE AndroidText(ChunkedToJson(EngineNames, EngineTypes, Fetches(res)))

\* Java_..._query, from the engine's answer on (try block)
AndroidQueryResponse(res) ==
    CASE res.kind = "throw" -> AndroidError(res.msg)
      [] res.kind = "error" -> AndroidError(res.msg)
      [] OTHER ->
         AndroidText(MaterializedToJson(EngineNames, EngineTypes, ResultRows(res)))

\* duckdb_ios_execute_prepared, from the engine's answer on (try block)
IosExecutePreparedResponse(res, slot) ==
    CASE res.kind = "throw" -> IosError(res.msg, slot)
      [] res.kind = "error" -> IosError(res.msg, slot)
      [] OTHER ->
         IF res.fetchEnd = "throw" THEN IosError(EngineWhatMsg, slot)
         ELSE IosText(ChunkedToJson(EngineNames, EngineTypes, Fetches(res)))

\* duckdb_ios_query, from the engine's answer on (try block)
IosQueryResponse(res, slot) ==
    CASE res.kind = "throw" -> IosError(res.msg, slot)
      [] res.kind = "error" -> IosError(res.msg, slot)
      [] OTHER ->
         IF res.fetchEnd = "throw" THEN IosError(EngineWhatMsg, slot)
         ELSE IosText(ChunkedToJson(EngineNames, EngineTypes, Fetches(res)))

\* wrapper->stmt->Execute(values_ref, false): the result is materialized;
\* wrapper->stmt->Execute(wrapper->bindings): allow_stream_result is left
\* to the engine's default, and the result may be a streaming one
ExecuteMayStream(b) == b = "ios"

(***************************************************************************)
(* State.                                                                  *)
(***************************************************************************)
VARIABLES
    bridge,    \* "android" or "ios": the bridge the host application runs
    dbs,       \* database wrapper at each address: [state,
               \* spatial_loaded, loadOk]; loadOk records whether the
               \* extension load of the open that made it succeeded
    conns,     \* connection object at each address: its lifecycle state
    stmts,     \* statement wrapper at each address: [state, bindings]
    crashed,   \* an exception or a fault has ended the host process
    call,      \* the last call of the host and what it got back
    maxBound,  \* per statement address: highest index bound successfully
    serIn,     \* serializer study: the result handed to the serializers
    serOut     \* serializer study: their outputs

vars == <<bridge, dbs, conns, stmts, crashed, call, maxBound, serIn, serOut>>
storeVars == <<bridge, dbs, conns, stmts, crashed, call, maxBound>>
serVars == <<serIn, serOut>>

\* the addresses the allocator hands out for each kind of object; 0 is null
DbAddrs   == DOMAIN dbs
ConnAddrs == DOMAIN conns
StmtAddrs == DOMAIN stmts
\* how many objects of a kind can be alive at once: one, or two where a
\* property is about two objects side by side
OneAddress   == {1}
TwoAddresses == {1, 2}

Max(a, b) == IF a >= b THEN a ELSE b

\* a call as the host sees it.  fate: "returned", "crashed" (an exception
\* left the bridge function, or a fault), "undefined" (the call read or
\* wrote a deleted object and went on: what it returns is arbitrary).
\* deref: the state ("live", "destroyed", "unopened") of the object the
\* handle was dereferenced as, "none" when the call did not dereference it.
\* prior, sizeBefore: the value the slot of a bind call held, and the size
\* the store had, before the call.  sqlNull: the SQL string of the call
\* was null (or could not be decoded).  leaked: the bridge objects the call
\* allocated that are neither returned to the caller nor freed.
\* engineKind, engineMsg: how the engine answered the call's Query or
\* Execute ("throw", "error", "rows"; "none": not asked), and the text of
\* result->GetError() or e.what().  engine: the engine entry points
\* called, in order, each with the value list handed over.
NewCall(op, h) ==
    [op |-> op, h |-> h, index |-> 0, value |-> NullValue,
     prior |-> NullValue, sizeBefore |-> 0, slot |-> FALSE,
     fate |-> "returned", retBool |-> FALSE, retHandle |-> 0,
     retNull |-> FALSE, text |-> <<>>, errSet |-> FALSE, err |-> <<>>,
     changes |-> -1, deref |-> "none", engine |-> <<>>,
     engineError |-> FALSE, errWrites |-> 0, sqlNull |-> FALSE,
     leaked |-> 0, engineKind |-> "none", engineMsg |-> <<>>,
     rowsOut |-> FALSE, rowCount |-> -1, strNull |-> FALSE,
     nParams |-> -1]

WithResponse(c, r) ==
    [c EXCEPT !.retNull = r.retNull, !.text = r.text, !.errSet = r.errSet,
              !.err = r.err, !.errWrites = r.errWrites]

\* the outcomes of dereferencing a pointer to a deleted (or never created)
\* object
DanglingFates == {"crashed", "undefined"}

Dangling(c, state, fate) == [c EXCEPT !.deref = state, !.fate = fate]

(***************************************************************************)
(* Inputs of the calls.                                                    *)
(***************************************************************************)
\* jint / int index: below 1 (with the least int), in range, and an index
\* no device can grow a store to
IndexInputs == {INT_MIN, -1, 0, INT_MAX} \cup (1..MaxIndex)
\* jstring / const char* value: null, or a text
StringInputs == {[null |-> TRUE, s |-> <<>>], [null |-> FALSE, s |-> <<120>>]}
\* jlong / int64_t value, as its eight bytes: 7
LongInputs == {<<0, 0, 0, 0, 0, 0, 0, 7>>}
\* jdouble / double value: an entry of FloatTexts
DoubleInputs == {1}
\* the caller passes an error slot (iOS; the Android functions have none)
SlotInputs == IF bridge = "ios" THEN BOOLEAN ELSE {FALSE}

LiveStmt(h) == h \in StmtAddrs /\ stmts[h].state = "live"
LiveConn(h) == h \in ConnAddrs /\ conns[h] = "live"
LiveDb(h)   == h \in DbAddrs /\ dbs[h].state = "live"

\* the memory at a database address in a lifecycle state, and the wrapper
\* of a database opened without the extension
DbAt(state) == [state |-> state, spatial_loaded |-> FALSE, loadOk |-> FALSE]

StoreInit ==
    /\ bridge \in {"android", "ios"}
    /\ dbs = [a \in OneAddress |-> DbAt("unopened")]
    /\ conns = [a \in OneAddress |-> "unopened"]
    /\ stmts = [a \in OneAddress |-> [state |-> "unopened", bindings |-> <<>>]]
    /\ crashed = FALSE
    /\ call = NewCall("none", 0)
    /\ maxBound = [a \in OneAddress |-> 0]

(***************************************************************************)
(* The bind functions.  After the handle check they run AndroidBind or     *)
(* IosBind on the store; none of them catches an exception, so a throwing  *)
(* resize leaves the bridge function and ends the process.                 *)
(***************************************************************************)
\* WithBindings of a bridge that keeps one store for all its statements
WithSharedBindings(ss, h, bindings) ==
    [a \in DOMAIN ss |-> IF ss[a].state = "live"
                         THEN [ss[a] EXCEPT !.bindings = bindings]
                         ELSE ss[a]]

\* the statements after a bind wrote wrapper->bindings of the wrapper at h:
\* each wrapper has its own vector
WithBindings(ss, h, bindings) == [ss EXCEPT ![h].bindings = bindings]

BindOutcomes(bindings, index, value) ==
    IF bridge = "android" THEN AndroidBind(bindings, index, value)
    ELSE IosBind(bindings, index, value)

\* whether the call, on this bridge, can reach wrapper->bindings
BindDereferences(index) ==
    index >= 1 \/ (bridge = "android" /\ index = INT_MIN)

Bind(op, h, index, value, strNull) ==
    LET c == [NewCall(op, h) EXCEPT !.index = index, !.value = value,
                                    !.strNull = strNull] IN
    /\ ~crashed
    /\ UNCHANGED <<bridge, dbs, conns, serVars>>
    /\ IF h = 0
       THEN /\ call' = c
            /\ UNCHANGED <<stmts, crashed, maxBound>>
       ELSE IF LiveStmt(h)
       THEN \E o \in BindOutcomes(stmts[h].bindings, index, value) :
            /\ stmts' = WithBindings(stmts, h, o.bindings)
            /\ crashed' = (o.fate = "thrown")
            /\ call' = [c EXCEPT
                 !.retBool = o.ret,
                 !.sizeBefore = Len(stmts[h].bindings),
                 !.prior = IF index >= 1 /\ index <= Len(stmts[h].bindings)
                           THEN stmts[h].bindings[index] ELSE NullValue,
                 !.fate = IF o.fate = "thrown" THEN "crashed" ELSE "returned",
                 !.deref = IF BindDereferences(index) THEN "live" ELSE "none"]
            /\ maxBound' = [maxBound EXCEPT ![h] =
                 IF o.fate = "returned" /\ o.ret THEN Max(@, index) ELSE @]
       ELSE \* a handle to a deleted or never created wrapper
            \E o \in BindOutcomes(<<>>, index, value), f \in DanglingFates :
            /\ UNCHANGED <<stmts, maxBound>>
            /\ IF o.fate = "returned" /\ ~o.ret
               THEN /\ call' = c
                    /\ crashed' = FALSE
               ELSE /\ call' = Dangling(c, stmts[h].state, f)
                    /\ crashed' = (f = "crashed")

\* StringArgValue of a bridge that binds the empty text for a null string
StringArgValueNullAsEmpty(value) == StringValue(value.s)

\* the value bindString stores for its argument: duckdb::Value() for a null
\* string (GetStringUTFChars returned nullptr; value == NULL), the text
\* otherwise
StringArgValue(value) ==
    IF value.null THEN NullValue ELSE StringValue(value.s)

BindString(h, index, value) ==
    Bind("bindString", h, index, StringArgValue(value), value.null)

BindLong(h, index, value) ==
    Bind("bindLong", h, index, BigintValue(value), FALSE)

BindDouble(h, index, value) ==
    Bind("bindDouble", h, index, DoubleValue(value), FALSE)

BindBoolean(h, index, value) ==
    Bind("bindBoolean", h, index, BooleanValue(value), FALSE)

BindNull(h, index) == Bind("bindNull", h, index, NullValue, FALSE)

\* clearBindings / duckdb_ios_clear_bindings
ClearBindings(h) ==
    LET c == NewCall("clearBindings", h) IN
    /\ ~crashed
    /\ UNCHANGED <<bridge, dbs, conns, maxBound, serVars>>
    /\ IF h = 0
       THEN /\ call' = c
            /\ UNCHANGED <<stmts, crashed>>
       ELSE IF LiveStmt(h)
       THEN /\ stmts' = [stmts EXCEPT
                           ![h].bindings = ClearedBindings(stmts[h].bindings)]
            /\ call' = [c EXCEPT !.retBool = (bridge = "android"), !.deref = "live"]
            /\ UNCHANGED crashed
       ELSE \E f \in DanglingFates :
            /\ call' = Dangling(c, stmts[h].state, f)
            /\ crashed' = (f = "crashed")
            /\ UNCHANGED stmts

\* the engine entry points executePrepared calls, with the values handed
\* over: wrapper->stmt->Execute(bindings), once
\* ExecuteCalls of a bridge that tries the execution a second time
ExecuteCallsRetried(bindings) ==
    << [fn |-> "Execute", values |-> bindings],
       [fn |-> "Execute", values |-> bindings] >>

ExecuteCalls(bindings) == << [fn |-> "Execute", values |-> bindings] >>

\* BindingsAfterExecute of a bridge that resets the store once it has run
BindingsResetAfterExecute(bindings) == [k \in 1..Len(bindings) |-> NullValue]

\* the store after executePrepared: Execute is given the vector itself and
\* the bridge does nothing to it afterwards
BindingsAfterExecute(bindings) == bindings

\* InvalidStatementResponse that answers a null handle with no rows
InvalidStatementAsNoRows(slot) ==
    IF bridge = "android" THEN AndroidText(<<91, 93>>) ELSE IosText(<<91, 93>>)

InvalidStatementResponse(slot) ==
    IF bridge = "android" THEN AndroidError(MsgInvalidStatement)
    ELSE IosError(MsgInvalidStatement, slot)

ExecutePreparedResponse(res, slot) ==
    IF bridge = "android" THEN AndroidExecutePreparedResponse(res)
    ELSE IosExecutePreparedResponse(res, slot)

\* executePrepared / duckdb_ios_execute_prepared
ExecutePrepared(h, res, slot) ==
    LET c == [NewCall("executePrepared", h) EXCEPT !.slot = slot] IN
    /\ ~crashed
    /\ UNCHANGED <<bridge, dbs, conns, maxBound, serVars>>
    /\ IF h = 0
       THEN /\ call' = WithResponse(c, InvalidStatementResponse(slot))
            /\ UNCHANGED <<stmts, crashed>>
       ELSE IF LiveStmt(h)
       THEN /\ call' = [WithResponse(c, ExecutePreparedResponse(res, slot))
                        EXCEPT !.deref = "live",
                               !.engine = ExecuteCalls(stmts[h].bindings),
                               !.engineError = EngineReportsError(res),
                               !.engineKind = res.kind,
                               !.engineMsg = res.msg]
            /\ stmts' = [stmts EXCEPT
                           ![h].bindings = BindingsAfterExecute(@)]
            /\ UNCHANGED crashed
       ELSE \E f \in DanglingFates :
            /\ call' = Dangling(c, stmts[h].state, f)
            /\ crashed' = (f = "crashed")
            /\ UNCHANGED stmts

\* destroyPrepared / duckdb_ios_destroy_prepared: delete wrapper
DestroyPrepared(h) ==
    LET c == NewCall("destroyPrepared", h) IN
    /\ ~crashed
    /\ UNCHANGED <<bridge, dbs, conns, maxBound, serVars>>
    /\ IF h = 0
       THEN /\ call' = c
            /\ UNCHANGED <<stmts, crashed>>
       ELSE IF LiveStmt(h)
       THEN /\ stmts' = [stmts EXCEPT
                           ![h] = [state |-> "destroyed", bindings |-> <<>>]]
            /\ call' = [c EXCEPT !.deref = "live"]
            /\ UNCHANGED crashed
       ELSE \E f \in DanglingFates :
            /\ call' = Dangling(c, stmts[h].state, f)
            /\ crashed' = (f = "crashed")
            /\ UNCHANGED stmts

\* PreparedWrapper of a prepare that leaves the new store empty
PreparedWrapperUnsized(n_params) == [state |-> "live", bindings |-> <<>>]

\* the statement wrapper prepare creates: bindings.resize(n_params)
PreparedWrapper(n_params) ==
    [state |-> "live", bindings |-> VectorResize(<<>>, n_params)]

\* what Prepare can answer: it throws, the statement carries an error, or
\* its named_param_map has n entries
PrepareAnswers ==
    {[kind |-> "throw", n |-> 0], [kind |-> "error", n |-> 0]}
    \cup {[kind |-> "ok", n |-> n] : n \in 0..MaxParams}

PrepareFailure(answer, slot) ==
    IF bridge = "android" THEN [AndroidText(<<>>) EXCEPT !.retNull = TRUE]
    ELSE IosError(IF answer.kind = "throw" THEN EngineWhatMsg ELSE EngineErrorMsg,
                  slot)

InvalidConnectionResponse(slot) ==
    IF bridge = "android" THEN [AndroidText(<<>>) EXCEPT !.retNull = TRUE]
    ELSE IosError(MsgIosInvalidConnection, slot)

\* the SQL string of a call: null (Android: also a string whose
\* GetStringUTFChars returns nullptr), or a text
SqlNullInputs == BOOLEAN

\* what prepare answers a null SQL string with
InvalidSqlResponse(slot) ==
    IF bridge = "android" THEN [AndroidText(<<>>) EXCEPT !.retNull = TRUE]
    ELSE IosError(MsgIosInvalidSql, slot)

\* what query and execute answer a null SQL string with
InvalidSqlText(slot) ==
    IF bridge = "android" THEN AndroidError(MsgInvalidSqlString)
    ELSE IosError(MsgIosInvalidSql, slot)

\* prepare / duckdb_ios_prepare
Prepare(h, sqlNull, answer, slot) ==
    LET c == [NewCall("prepare", h) EXCEPT !.slot = slot, !.sqlNull = sqlNull]
    IN
    /\ ~crashed
    /\ UNCHANGED <<bridge, dbs, conns, serVars>>
    /\ IF h = 0
       THEN /\ call' = WithResponse(c, InvalidConnectionResponse(slot))
            /\ UNCHANGED <<stmts, crashed, maxBound>>
       ELSE IF sqlNull
       THEN /\ call' = WithResponse(c, InvalidSqlResponse(slot))
            /\ UNCHANGED <<stmts, crashed, maxBound>>
       ELSE IF LiveConn(h)
       THEN IF answer.kind \in {"throw", "error"}
            THEN /\ call' = [WithResponse(c, PrepareFailure(answer, slot))
                             EXCEPT !.deref = "live",
                                    !.engine = << [fn |-> "Prepare",
                                                   values |-> <<>>] >>,
                                    !.engineError = TRUE]
                 /\ UNCHANGED <<stmts, crashed, maxBound>>
            ELSE \E a \in StmtAddrs :
                 /\ stmts[a].state # "live"
                 /\ stmts' = [stmts EXCEPT ![a] = PreparedWrapper(answer.n)]
                 /\ maxBound' = [maxBound EXCEPT ![a] = 0]
                 /\ call' = [c EXCEPT !.deref = "live", !.retHandle = a,
                                      !.nParams = answer.n,
                                      !.engine = << [fn |-> "Prepare",
                                                     values |-> <<>>] >>]
                 /\ UNCHANGED crashed
       ELSE \E f \in DanglingFates :
            /\ call' = Dangling(c, conns[h], f)
            /\ crashed' = (f = "crashed")
            /\ UNCHANGED <<stmts, maxBound>>

\* what the engine can answer to an open: the DuckDB constructor throws;
\* it succeeds and the extension loads ("ok"); it succeeds and the
\* extension load throws ("noext")
OpenAnswers == {"throw", "ok", "noext"}

\* the engine entry points a call makes, in order, without value lists
EngineCalls(fns) == [k \in 1..Len(fns) |-> [fn |-> fns[k], values |-> <<>>]]

\* SpatialLoadedAfterOpen with the flag set before the load is attempted
SpatialLoadedBeforeLoad(answer) == bridge = "ios"

\* wrapper->spatial_loaded after the inner try block (iOS; the Android
\* wrapper has no such member)
SpatialLoadedAfterOpen(answer) == bridge = "ios" /\ answer = "ok"

\* the objects a create has allocated with new and not deleted when the
\* engine throws: the DatabaseWrapper of openDatabase (both bridges), the
\* ConnectionWrapper of duckdb_ios_connect; Android's connect has only the
\* new-expression whose constructor throws, and prepare allocates its
\* wrapper after the engine has answered
LeakedOnThrow(op) ==
    CASE op = "openDatabase" -> 1
      [] op = "connect"      -> (IF bridge = "ios" THEN 1 ELSE 0)
      [] OTHER               -> 0

\* the 0 / NULL of a create that failed, with the engine's message (iOS)
CreateFailure(msg, slot) ==
    IF bridge = "android" THEN [AndroidText(<<>>) EXCEPT !.retNull = TRUE]
    ELSE IosError(msg, slot)

\* openDatabase / duckdb_ios_open_database: the engine opens the database
\* or throws; a failing extension load is caught and logged
OpenDatabase(answer, slot) ==
    LET c == [NewCall("openDatabase", 0) EXCEPT !.slot = slot] IN
    /\ ~crashed
    /\ UNCHANGED <<bridge, conns, stmts, crashed, maxBound, serVars>>
    /\ IF answer = "throw"
       THEN /\ call' = [WithResponse(c, CreateFailure(EngineWhatMsg, slot))
                        EXCEPT !.engineError = TRUE,
                               !.engine = EngineCalls(<<"Open">>),
                               !.leaked = LeakedOnThrow("openDatabase")]
            /\ UNCHANGED dbs
       ELSE \E a \in DbAddrs :
            /\ dbs[a].state # "live"
            /\ dbs' = [dbs EXCEPT ![a] =
                         [state |-> "live",
                          spatial_loaded |-> SpatialLoadedAfterOpen(answer),
                          loadOk |-> (answer = "ok")]]
            /\ call' = [c EXCEPT !.retHandle = a,
                          !.engine = EngineCalls(<<"Open", "LoadStaticExtension">>)]

\* ConnectionsAfterClose of a bridge that disconnects what is connected
ConnectionsClosedWithDatabase(cs) ==
    [a \in DOMAIN cs |-> IF cs[a] = "live" THEN "destroyed" ELSE cs[a]]

\* the connections after closeDatabase: delete wrapper releases the
\* wrapper's reference to the engine and nothing else
ConnectionsAfterClose(cs) == cs

\* closeDatabase / duckdb_ios_close_database: delete wrapper
CloseDatabase(h) ==
    LET c == NewCall("closeDatabase", h) IN
    /\ ~crashed
    /\ conns' = IF LiveDb(h) THEN ConnectionsAfterClose(conns) ELSE conns
    /\ UNCHANGED <<bridge, stmts, maxBound, serVars>>
    /\ IF h = 0
       THEN /\ call' = c
            /\ UNCHANGED <<dbs, crashed>>
       ELSE IF LiveDb(h)
       THEN /\ dbs' = [dbs EXCEPT ![h] = DbAt("destroyed")]
            /\ call' = [c EXCEPT !.deref = "live"]
            /\ UNCHANGED crashed
       ELSE \E f \in DanglingFates :
            /\ call' = Dangling(c, dbs[h].state, f)
            /\ crashed' = (f = "crashed")
            /\ UNCHANGED dbs

InvalidDatabaseResponse(slot) ==
    IF bridge = "android" THEN [AndroidText(<<>>) EXCEPT !.retNull = TRUE]
    ELSE IosError(MsgInvalidDatabase, slot)

\* connect / duckdb_ios_connect
Connect(h, answer, slot) ==
    LET c == [NewCall("connect", h) EXCEPT !.slot = slot] IN
    /\ ~crashed
    /\ UNCHANGED <<bridge, dbs, stmts, maxBound, serVars>>
    /\ IF h = 0
       THEN /\ call' = WithResponse(c, InvalidDatabaseResponse(slot))
            /\ UNCHANGED <<conns, crashed>>
       ELSE IF LiveDb(h)
       THEN IF answer = "throw"
            THEN /\ call' = [WithResponse(c, CreateFailure(EngineWhatMsg, slot))
                             EXCEPT !.deref = "live", !.engineError = TRUE,
                                    !.engine = EngineCalls(<<"Connection">>),
                                    !.leaked = LeakedOnThrow("connect")]
                 /\ UNCHANGED <<conns, crashed>>
            ELSE \E a \in ConnAddrs :
                 /\ conns[a] # "live"
                 /\ conns' = [conns EXCEPT ![a] = "live"]
                 /\ call' = [c EXCEPT !.deref = "live", !.retHandle = a,
                               !.engine = EngineCalls(<<"Connection">>)]
                 /\ UNCHANGED crashed
       ELSE \E f \in DanglingFates :
            /\ call' = Dangling(c, dbs[h].state, f)
            /\ crashed' = (f = "crashed")
            /\ UNCHANGED conns

\* disconnect / duckdb_ios_disconnect: delete the connection
Disconnect(h) ==
    LET c == NewCall("disconnect", h) IN
    /\ ~crashed
    /\ UNCHANGED <<bridge, dbs, stmts, maxBound, serVars>>
    /\ IF h = 0
       THEN /\ call' = c
            /\ UNCHANGED <<conns, crashed>>
       ELSE IF LiveConn(h)
       THEN /\ conns' = [conns EXCEPT ![h] = "destroyed"]
            /\ call' = [c EXCEPT !.deref = "live"]
            /\ UNCHANGED crashed
       ELSE \E f \in DanglingFates :
            /\ call' = Dangling(c, conns[h], f)
            /\ crashed' = (f = "crashed")
            /\ UNCHANGED conns

\* duckdb_ios_has_spatial_extension (the Android bridge has no probe)
HasSpatialExtension(h) ==
    LET c == NewCall("hasSpatialExtension", h) IN
    /\ ~crashed
    /\ bridge = "ios"
    /\ UNCHANGED <<bridge, dbs, conns, stmts, maxBound, serVars>>
    /\ IF h = 0
       THEN /\ call' = c
            /\ UNCHANGED crashed
       ELSE IF LiveDb(h)
       THEN /\ call' = [c EXCEPT !.deref = "live",
                                 !.retBool = dbs[h].spatial_loaded]
            /\ UNCHANGED crashed
       ELSE \E f \in DanglingFates :
            /\ call' = Dangling(c, dbs[h].state, f)
            /\ crashed' = (f = "crashed")

InvalidConnectionText(slot) ==
    IF bridge = "android" THEN AndroidError(MsgInvalidConnection)
    ELSE IosError(MsgIosInvalidConnection, slot)

QueryResponse(res, slot) ==
    IF bridge = "android" THEN AndroidQueryResponse(res)
    ELSE IosQueryResponse(res, slot)

\* query / duckdb_ios_query: conn->Query(sql), a materialized result
Query(h, sqlNull, res, slot) ==
    LET c == [NewCall("query", h) EXCEPT !.slot = slot, !.sqlNull = sqlNull]
    IN
    /\ ~crashed
    /\ UNCHANGED <<bridge, dbs, conns, stmts, maxBound, serVars>>
    /\ IF h = 0
       THEN /\ call' = WithResponse(c, InvalidConnectionText(slot))
            /\ UNCHANGED crashed
       ELSE IF sqlNull
       THEN /\ call' = WithResponse(c, InvalidSqlText(slot))
            /\ UNCHANGED crashed
       ELSE IF LiveConn(h)
       THEN /\ call' = [WithResponse(c, QueryResponse(res, slot))
                        EXCEPT !.deref = "live",
                               !.engine = << [fn |-> "Query",
                                              values |-> <<>>] >>,
                               !.engineError = EngineReportsError(res),
                               !.engineKind = res.kind,
                               !.engineMsg = res.msg]
            /\ UNCHANGED crashed
       ELSE \E f \in DanglingFates :
            /\ call' = Dangling(c, conns[h], f)
            /\ crashed' = (f = "crashed")

\* the eight bytes of a small row count
CountBytes(n) == <<0, 0, 0, 0, 0, 0, 0, n>>

\* json << "{\"changes\":" << rows_changed << "}"
ChangesJson(n) == TxtChanges \o SignedDecimal(CountBytes(n)) \o TxtCloseObj

\* ExecuteResponse of an execute that serializes the rows as query does
ExecuteResponseAsQuery(res, slot) == QueryResponse(res, slot)

\* the caller passes rows_changed_out (iOS; Android returns the count in
\* the text)
RowsOutInputs == IF bridge = "ios" THEN BOOLEAN ELSE {FALSE}

\* execute / duckdb_ios_execute, from the engine's answer on (try block):
\* the JSON of the row count (Android); true, with the count written
\* through rows_changed_out (iOS)
ExecuteResponse(res, slot) ==
    LET failed == res.kind \in {"throw", "error"} IN
    IF bridge = "android"
    THEN (IF failed THEN AndroidError(res.msg)
          ELSE AndroidText(ChangesJson(Len(ResultRows(res)))))
    ELSE (IF failed THEN IosError(res.msg, slot) ELSE IosText(<<>>))

\* execute / duckdb_ios_execute: conn->Query(sql), then RowCount()
Execute(h, sqlNull, res, slot, rowsOut) ==
    LET c == [NewCall("execute", h) EXCEPT !.slot = slot, !.sqlNull = sqlNull,
                                           !.rowsOut = rowsOut]
        failed == res.kind \in {"throw", "error"}
    IN
    /\ ~crashed
    /\ UNCHANGED <<bridge, dbs, conns, stmts, maxBound, serVars>>
    /\ IF h = 0
       THEN /\ call' = WithResponse(c, InvalidConnectionText(slot))
            /\ UNCHANGED crashed
       ELSE IF sqlNull
       THEN /\ call' = WithResponse(c, InvalidSqlText(slot))
            /\ UNCHANGED crashed
       ELSE IF LiveConn(h)
       THEN /\ call' = [WithResponse(c, ExecuteResponse(res, slot))
                        EXCEPT !.deref = "live",
                               !.retBool = ~failed,
                               !.changes = IF bridge = "ios" /\ ~failed
                                              /\ rowsOut
                                           THEN Len(ResultRows(res)) ELSE -1,
                               !.rowCount = IF failed THEN -1
                                            ELSE Len(ResultRows(res)),
                               !.engine = << [fn |-> "Query",
                                              values |-> <<>>] >>,
                               !.engineError = failed,
                               !.engineKind = res.kind,
                               !.engineMsg = res.msg]
            /\ UNCHANGED crashed
       ELSE \E f \in DanglingFates :
            /\ call' = Dangling(c, conns[h], f)
            /\ crashed' = (f = "crashed")

(***************************************************************************)
(* The bridge under the calls of its host.                                 *)
(***************************************************************************)
StmtHandles == {0} \cup StmtAddrs
ConnHandles == {0} \cup ConnAddrs
DbHandles   == {0} \cup DbAddrs

\* the SQL string of a call and the engine's answer to it: the engine is
\* not asked about a null string, so one answer stands for all
SqlCalls(answers) ==
    { [sqlNull |-> n, answer |-> a] : n \in SqlNullInputs, a \in answers }
    \ { [sqlNull |-> TRUE, answer |-> a] :
         a \in answers \ {CHOOSE x \in answers : TRUE} }

\* the whole bridge keeps the stores small: one index below 1, the least
\* int, one index in range and one out of reach
LifeIndexInputs == {INT_MIN, 0, 1, INT_MAX}

Init ==
    /\ StoreInit
    /\ serIn = <<>>
    /\ serOut = <<>>

Next ==
    \/ \E answer \in OpenAnswers, slot \in SlotInputs :
          OpenDatabase(answer, slot)
    \/ \E h \in DbHandles : CloseDatabase(h)
    \/ \E h \in DbHandles, answer \in {"ok", "throw"}, slot \in SlotInputs :
          Connect(h, answer, slot)
    \/ \E h \in ConnHandles : Disconnect(h)
    \/ \E h \in DbHandles : HasSpatialExtension(h)
    \/ \E h \in ConnHandles, in \in SqlCalls(EngineResults(FALSE)),
          slot \in SlotInputs :
          Query(h, in.sqlNull, in.answer, slot)
    \/ \E h \in ConnHandles, in \in SqlCalls(EngineResults(FALSE)),
          slot \in SlotInputs, rowsOut \in RowsOutInputs :
          Execute(h, in.sqlNull, in.answer, slot, rowsOut)
    \/ \E h \in ConnHandles, in \in SqlCalls(PrepareAnswers),
          slot \in SlotInputs :
          Prepare(h, in.sqlNull, in.answer, slot)
    \/ \E h \in StmtHandles : DestroyPrepared(h)
    \/ \E h \in StmtHandles, i \in LifeIndexInputs, v \in StringInputs :
          BindString(h, i, v)
    \/ \E h \in StmtHandles, i \in LifeIndexInputs, v \in LongInputs :
          BindLong(h, i, v)
    \/ \E h \in StmtHandles, i \in LifeIndexInputs, v \in DoubleInputs :
          BindDouble(h, i, v)
    \/ \E h \in StmtHandles, i \in LifeIndexInputs, v \in {TRUE} :
          BindBoolean(h, i, v)
    \/ \E h \in StmtHandles, i \in LifeIndexInputs : BindNull(h, i)
    \/ \E h \in StmtHandles : ClearBindings(h)
    \/ \E h \in StmtHandles, slot \in SlotInputs,
          res \in EngineResults(ExecuteMayStream(bridge)) :
          ExecutePrepared(h, res, slot)

Spec == Init /\ [][Next]_vars

(***************************************************************************)
(* The binding store in depth: one connection is open, and the host        *)
(* prepares, binds at every index input with every variant, clears,        *)
(* executes and destroys.                                                  *)
(***************************************************************************)
StoreSpecInit ==
    /\ bridge \in {"android", "ios"}
    /\ dbs = [a \in OneAddress |-> DbAt("live")]
    /\ conns = [a \in OneAddress |-> "live"]
    /\ stmts = [a \in OneAddress |-> [state |-> "unopened", bindings |-> <<>>]]
    /\ crashed = FALSE
    /\ call = NewCall("none", 0)
    /\ maxBound = [a \in OneAddress |-> 0]
    /\ serIn = <<>>
    /\ serOut = <<>>

\* one answer of each kind: the engine throws, reports an error, returns a row
StoreResults ==
    EngineFailures \cup
    { [kind |-> "rows", msg |-> EngineErrorMsg,
       chunks |-> << EngineRows(1) >>, fetchEnd |-> "nullptr"] }

StoreSpecNext ==
    \/ \E h \in ConnAddrs, answer \in PrepareAnswers :
          Prepare(h, FALSE, answer, FALSE)
    \/ \E h \in StmtHandles : DestroyPrepared(h)
    \/ \E h \in StmtAddrs, i \in IndexInputs, v \in StringInputs :
          BindString(h, i, v)
    \/ \E h \in StmtAddrs, i \in IndexInputs, v \in LongInputs :
          BindLong(h, i, v)
    \/ \E h \in StmtAddrs, i \in IndexInputs, v \in DoubleInputs :
          BindDouble(h, i, v)
    \/ \E h \in StmtAddrs, i \in IndexInputs, v \in BOOLEAN :
          BindBoolean(h, i, v)
    \/ \E h \in StmtAddrs, i \in IndexInputs : BindNull(h, i)
    \/ \E h \in StmtAddrs : ClearBindings(h)
    \/ \E h \in StmtAddrs, res \in StoreResults : ExecutePrepared(h, res, FALSE)

StoreSpec == StoreSpecInit /\ [][StoreSpecNext]_vars

(***************************************************************************)
(* The serializers on their own: a result is drawn, and the materialized   *)
(* and the chunked serializer are each run on it.                          *)
(***************************************************************************)
\* the type of the k-th column
SerTypes == <<"BIGINT", "VARCHAR", "UBIGINT", "BOOLEAN", "DOUBLE">>
SerType(k) == SerTypes[((k - 1) % Len(SerTypes)) + 1]

\* a value of each type: -1, the text a", 18446744073709551615, true, 1.5
SerCell(type) ==
    [null |-> FALSE,
     v |-> CASE type = "BIGINT"  -> <<255, 255, 255, 255, 255, 255, 255, 255>>
             [] type = "VARCHAR" -> <<97, 34>>
             [] type = "UBIGINT" -> <<255, 255, 255, 255, 255, 255, 255, 255>>
             [] OTHER            -> <<1>>]
SerNullCell == [null |-> TRUE, v |-> <<>>]

\* the column types start at the first or at the fourth of SerTypes
SerShifts == {0, 3}

\* two rows of m columns: every cell set; every other cell null
SerRow(m, sh, kind) ==
    [k \in 1..m |-> IF kind = 2 /\ k % 2 = 1 THEN SerNullCell
                    ELSE SerCell(SerType(k + sh))]

\* column names "a" and "b", so that two columns can share a name
SerNameSets(m) == [1..m -> {<<97>>, <<98>>}]

SerRowSets(m, sh) ==
    UNION { { [k \in 1..n |-> SerRow(m, sh, kinds[k])] :
              kinds \in [1..n -> {1, 2}] } : n \in 0..SerMaxRows }

SerInputs ==
    UNION { { [names |-> nm, types |-> [k \in 1..m |-> SerType(k + sh)],
               chunks |-> c, fetchEnd |-> e] :
              nm \in SerNameSets(m),
              c \in UNION { Splits(rows) : rows \in SerRowSets(m, sh) },
              e \in {"nullptr", "empty"} } :
            m \in 0..SerMaxCols, sh \in SerShifts }

SerUnset == [done |-> FALSE, json |-> <<>>]

SerInit ==
    /\ serIn \in SerInputs
    /\ serOut = [materialized |-> SerUnset, chunked |-> SerUnset]
    /\ bridge = "android"
    /\ dbs = [a \in OneAddress |-> DbAt("unopened")]
    /\ conns = [a \in OneAddress |-> "unopened"]
    /\ stmts = [a \in OneAddress |-> [state |-> "unopened", bindings |-> <<>>]]
    /\ crashed = FALSE
    /\ call = NewCall("none", 0)
    /\ maxBound = [a \in OneAddress |-> 0]

\* resultToJson(result) of the Android bridge on the rows of the result
SerializeMaterialized ==
    /\ ~serOut.materialized.done
    /\ serOut' = [serOut EXCEPT !.materialized =
           [done |-> TRUE,
            json |-> MaterializedToJson(serIn.names, serIn.types,
                                        ResultRows(serIn))]]
    /\ UNCHANGED <<serIn, storeVars>>

\* queryResultToJson(result) / the iOS resultToJson(result) on the same
\* rows as the engine hands them out in chunks
SerializeChunked ==
    /\ ~serOut.chunked.done
    /\ serOut' = [serOut EXCEPT !.chunked =
           [done |-> TRUE,
            json |-> ChunkedToJson(serIn.names, serIn.types, Fetches(serIn))]]
    /\ UNCHANGED <<serIn, storeVars>>

SerNext == SerializeMaterialized \/ SerializeChunked

SerSpec == SerInit /\ [][SerNext]_vars

(***************************************************************************)
(* The encoding of one value: a result of one row and one column "a" of    *)
(* each type category, run through both serializers.                       *)
(***************************************************************************)
\* types that take the switch's default branch
FallbackTypes == {"VARCHAR", "HUGEINT", "DATE"}
EncTypes ==
    {"BOOLEAN"} \cup SignedTypes \cup UnsignedTypes \cup FloatTypes
    \cup FallbackTypes

\* sizeof the C type of an integer category, in bytes
IntWidth(type) ==
    CASE type \in {"TINYINT", "UTINYINT"}   -> 1
      [] type \in {"SMALLINT", "USMALLINT"} -> 2
      [] type \in {"INTEGER", "UINTEGER"}   -> 4
      [] OTHER                              -> 8

\* the values of an integer type: all of them for one byte; for the wider
\* types the ones whose first and last bytes are at an edge and whose
\* middle bytes are all 0x00 or all 0xff
EdgeBytes == {0, 1, 127, 128, 255}
IntValues(w) ==
    IF w = 1 THEN { <<b>> : b \in 0..255 }
    ELSE { <<hi>> \o [k \in 1..(w - 2) |-> mid] \o <<lo>> :
           hi \in EdgeBytes, mid \in {0, 255}, lo \in EdgeBytes }

\* the values of a type: its integers; false and true; the entries of
\* FloatTexts; for the other types the texts a" and null
EncValues(type) ==
    CASE type \in SignedTypes \cup UnsignedTypes -> IntValues(IntWidth(type))
      [] type = "BOOLEAN"     -> {<<0>>, <<1>>}
      [] type \in FloatTypes  -> { <<k>> : k \in 1..Len(FloatTexts) }
      [] OTHER                -> {<<97, 34>>, <<110, 117, 108, 108>>}

EncCells(type) ==
    {SerNullCell} \cup { [null |-> FALSE, v |-> v] : v \in EncValues(type) }

EncInputs ==
    UNION { { [names |-> << <<97>> >>, types |-> <<t>>,
               chunks |-> << << <<c>> >> >>, fetchEnd |-> "nullptr"] :
              c \in EncCells(t) } : t \in EncTypes }

EncInit ==
    /\ serIn \in EncInputs
    /\ serOut = [materialized |-> SerUnset, chunked |-> SerUnset]
    /\ bridge = "android"
    /\ dbs = [a \in OneAddress |-> DbAt("unopened")]
    /\ conns = [a \in OneAddress |-> "unopened"]
    /\ stmts = [a \in OneAddress |-> [state |-> "unopened", bindings |-> <<>>]]
    /\ crashed = FALSE
    /\ call = NewCall("none", 0)
    /\ maxBound = [a \in OneAddress |-> 0]

EncSpec == EncInit /\ [][SerNext]_vars

(***************************************************************************)
(* escapeJsonString on its own: every text of one byte, and the texts of   *)
(* up to EscMaxLen bytes over an alphabet of the bytes the switch tells    *)
(* apart, run through the function of each bridge.                         *)
(***************************************************************************)
\* NUL, backspace, tab, 0x1f, the quote, 0, a, backslash, u, 0xff
EscAlphabet == {0, 8, 9, 31, 34, 48, 97, 92, 117, 255}

RECURSIVE TextsOver(_, _)
TextsOver(alphabet, n) ==
    IF n = 0 THEN {<<>>}
    ELSE LET shorter == TextsOver(alphabet, n - 1)
         IN  shorter \cup { Append(t, b) : t \in shorter, b \in alphabet }

EscInputs == { <<b>> : b \in 0..255 } \cup TextsOver(EscAlphabet, EscMaxLen)

EscInit ==
    /\ serIn \in EscInputs
    /\ serOut = [android |-> SerUnset, ios |-> SerUnset]
    /\ bridge = "android"
    /\ dbs = [a \in OneAddress |-> DbAt("unopened")]
    /\ conns = [a \in OneAddress |-> "unopened"]
    /\ stmts = [a \in OneAddress |-> [state |-> "unopened", bindings |-> <<>>]]
    /\ crashed = FALSE
    /\ call = NewCall("none", 0)
    /\ maxBound = [a \in OneAddress |-> 0]

\* escapeJsonString(str) of duckdb_jni.cpp
EscapeAndroid ==
    /\ ~serOut.android.done
    /\ serOut' = [serOut EXCEPT !.android =
           [done |-> TRUE, json |-> escapeJsonString(serIn)]]
    /\ UNCHANGED <<serIn, storeVars>>

\* escapeJsonString(str) of duckdb_ios.cpp: the same switch; the cast
\* through unsigned char changes nothing for a byte in 0x00..0x1f
EscapeIos ==
    /\ ~serOut.ios.done
    /\ serOut' = [serOut EXCEPT !.ios =
           [done |-> TRUE, json |-> escapeJsonString(serIn)]]
    /\ UNCHANGED <<serIn, storeVars>>

EscNext == EscapeAndroid \/ EscapeIos

EscSpec == EscInit /\ [][EscNext]_vars

(***************************************************************************)
(* Objects side by side: one database, up to two connections and up to two *)
(* prepared statements, under the calls of a host that makes no mistake    *)
(* other than using a handle it has given up.                              *)
(***************************************************************************)
PairIndexInputs == {1, 2, INT_MAX}
\* the engine accepts the statement, with one parameter
PairAnswers == {[kind |-> "ok", n |-> 1]}
\* the engine returns a row, or reports an error
PairResults ==
    { [kind |-> "rows", msg |-> EngineErrorMsg,
       chunks |-> << EngineRows(1) >>, fetchEnd |-> "nullptr"],
      [kind |-> "error", msg |-> EngineErrorMsg, chunks |-> <<>>,
       fetchEnd |-> "nullptr"] }

PairInit ==
    /\ bridge \in {"android", "ios"}
    /\ dbs = [a \in OneAddress |-> DbAt("unopened")]
    /\ conns = [a \in TwoAddresses |-> "unopened"]
    /\ stmts = [a \in TwoAddresses |-> [state |-> "unopened", bindings |-> <<>>]]
    /\ crashed = FALSE
    /\ call = NewCall("none", 0)
    /\ maxBound = [a \in TwoAddresses |-> 0]
    /\ serIn = <<>>
    /\ serOut = <<>>

PairNext ==
    \/ OpenDatabase("ok", FALSE)
    \/ \E h \in DbAddrs : CloseDatabase(h)
    \/ \E h \in DbAddrs : Connect(h, "ok", FALSE)
    \/ \E h \in ConnAddrs : Disconnect(h)
    \/ \E h \in ConnAddrs, answer \in PairAnswers :
          Prepare(h, FALSE, answer, FALSE)
    \/ \E h \in StmtAddrs : DestroyPrepared(h)
    \/ \E h \in StmtAddrs, i \in PairIndexInputs, v \in LongInputs :
          BindLong(h, i, v)
    \/ \E h \in StmtAddrs, i \in PairIndexInputs : BindNull(h, i)
    \/ \E h \in StmtAddrs : ClearBindings(h)
    \/ \E h \in StmtAddrs, res \in PairResults : ExecutePrepared(h, res, FALSE)

PairSpec == PairInit /\ [][PairNext]_vars

(***************************************************************************)
(* Properties of the binding store (StoreSpec).                            *)
(***************************************************************************)
BindOps == {"bindString", "bindLong", "bindDouble", "bindBoolean", "bindNull"}

\* this step is a bind call on a live statement
BindStep == call'.op \in BindOps /\ LiveStmt(call'.h)
\* ... that returned true
BindSucceeded == BindStep /\ call'.fate = "returned" /\ call'.retBool

\* C1: on a live statement the store's size is at least the highest index
\* a successful bind has used so far, and no call on the statement makes
\* the size smaller.
C1_SizeCoversBoundIndexes ==
    /\ [](\A h \in StmtAddrs :
            stmts[h].state = "live" => Len(stmts[h].bindings) >= maxBound[h])
    /\ [][\A h \in StmtAddrs :
            (stmts[h].state = "live" /\ stmts'[h].state = "live")
            => Len(stmts'[h].bindings) >= Len(stmts[h].bindings)]_vars

\* a store grown by a bind beyond its declared parameters, then cleared
C1_Witness ==
    /\ LiveStmt(1)
    /\ call.op = "clearBindings"
    /\ maxBound[1] > MaxParams
    /\ Len(stmts[1].bindings) = maxBound[1]

\* C2: a bind with an index below 1 on a live statement returns failure and
\* leaves the store as it was, for every index down to the least int.
C2_BindBelowOneFails ==
    [][(BindStep /\ call'.index < 1)
       => /\ call'.fate = "returned"
          /\ ~call'.retBool
          /\ stmts' = stmts]_vars

\* C3: a successful bind of a value at index i on a store of size n leaves
\* size max(n, i), the new slots n+1 .. i-1 null, and the value in slot i.
C3_GrowToFit ==
    [][BindSucceeded
       => LET before == stmts[call'.h].bindings
              after  == stmts'[call'.h].bindings
              i      == call'.index
          IN  /\ i >= 1
              /\ Len(after) = Max(Len(before), i)
              /\ \A k \in (Len(before) + 1)..(i - 1) : after[k] = NullValue
              /\ after[i] = call'.value]_vars

\* a bind at index 3 or more on an empty store: a gap of nulls, the value last
C3_Witness ==
    /\ LiveStmt(1)
    /\ call.op \in BindOps /\ call.fate = "returned" /\ call.retBool
    /\ call.sizeBefore = 0 /\ call.index >= 3
    /\ call.value # NullValue
    /\ Len(stmts[1].bindings) = call.index
    /\ \A k \in 1..(call.index - 1) : stmts[1].bindings[k] = NullValue
    /\ stmts[1].bindings[call.index] = call.value

\* C4: a successful bind at index i puts the new value in slot i whatever
\* the slot held, and every other slot that existed keeps its value.
C4_BindOverwritesOnlyItsSlot ==
    [][BindSucceeded
       => LET before == stmts[call'.h].bindings
              after  == stmts'[call'.h].bindings
              i      == call'.index
          IN  /\ after[i] = call'.value
              /\ call'.prior = (IF i <= Len(before) THEN before[i]
                                ELSE NullValue)
              /\ \A k \in 1..Len(before) : k # i => after[k] = before[k]]_vars

\* a boolean bound over a string, beside a slot that holds another value
C4_Witness ==
    /\ LiveStmt(1)
    /\ call.op = "bindBoolean" /\ call.fate = "returned" /\ call.retBool
    /\ call.prior = StringValue(<<120>>)
    /\ stmts[1].bindings[call.index] = BooleanValue(TRUE)
    /\ \E k \in 1..Len(stmts[1].bindings) :
          k # call.index /\ stmts[1].bindings[k] = BigintValue(<<0, 0, 0, 0, 0, 0, 0, 7>>)

\* this step is a clearBindings call on a live statement
ClearStep == call'.op = "clearBindings" /\ LiveStmt(call'.h)

\* C5: clearBindings on a live statement leaves every slot null and the
\* size as it was; a second clearBindings right after changes nothing.
C5_ClearNullsEverySlot ==
    [][ClearStep
       => LET before == stmts[call'.h].bindings
              after  == stmts'[call'.h].bindings
          IN  /\ Len(after) = Len(before)
              /\ \A k \in 1..Len(after) : after[k] = NullValue
              /\ (call.op = "clearBindings" /\ call.h = call'.h)
                 => stmts' = stmts]_vars

\* a store with bound values was cleared: its size is that of the highest
\* bound index and every slot is null
C5_Witness ==
    /\ LiveStmt(1)
    /\ call.op = "clearBindings"
    /\ maxBound[1] >= 2
    /\ Len(stmts[1].bindings) >= maxBound[1]
    /\ \A k \in 1..Len(stmts[1].bindings) : stmts[1].bindings[k] = NullValue

\* this step is an executePrepared call on a live statement
ExecuteStep == call'.op = "executePrepared" /\ LiveStmt(call'.h)

\* C6: executePrepared calls the engine's execute once, with the store's
\* values in order, and leaves the store as it was whether the engine
\* succeeds or fails; a second executePrepared right after hands over the
\* same list.
C6_ExecutePassesStoreOnce ==
    [][ExecuteStep
       => /\ Len(call'.engine) = 1
          /\ call'.engine[1].fn = "Execute"
          /\ call'.engine[1].values = stmts[call'.h].bindings
          /\ stmts' = stmts
          /\ (call.op = "executePrepared" /\ call.h = call'.h
              /\ call.deref = "live")
             => call'.engine = call.engine]_vars

\* a failed execution of a statement whose store has a null gap
C6_Witness ==
    /\ LiveStmt(1)
    /\ call.op = "executePrepared" /\ call.engineError
    /\ Len(call.engine) = 1
    /\ Len(call.engine[1].values) >= 3
    /\ call.engine[1].values[1] = NullValue
    /\ call.engine[1].values[3] # NullValue
    /\ stmts[1].bindings = call.engine[1].values

(***************************************************************************)
(* Properties of the calls that return rows (Spec).                        *)
(***************************************************************************)
\* the caller reads the response as a failure: the "ERROR:" sentinel
\* (Android), a NULL return (iOS)
ErrorResponse(c) ==
    IF bridge = "android" THEN IsPrefix(TxtErrorPrefix, c.text) ELSE c.retNull

\* C7: when the engine reports an error for a query or executePrepared
\* call, at execution or while the rows are fetched, the caller gets an
\* error response and no serialized rows.
C7_NoRowsWithError ==
    (call.op \in {"query", "executePrepared"} /\ call.fate = "returned"
     /\ call.engineError)
    => ErrorResponse(call)

(***************************************************************************)
(* Properties of the serializers (SerSpec).                                *)
(***************************************************************************)
\* C8: on the same rows, however the engine splits them into chunks, the
\* chunked serializer writes the bytes the materialized serializer writes.
C8_ChunkedEqualsMaterialized ==
    (serOut.materialized.done /\ serOut.chunked.done)
    => serOut.chunked.json = serOut.materialized.json

\* three rows of two columns handed out in two or more chunks, the last
\* Fetch returning an empty chunk
C8_Witness ==
    /\ serOut.materialized.done /\ serOut.chunked.done
    /\ Len(serIn.chunks) >= 2
    /\ Len(ResultRows(serIn)) = 3
    /\ Len(serIn.types) = 2
    /\ serIn.fetchEnd = "empty"

RECURSIVE Join(_, _)
Join(parts, sep) ==
    IF parts = <<>> THEN <<>>
    ELSE IF Len(parts) = 1 THEN parts[1]
    ELSE parts[1] \o sep \o Join(Tail(parts), sep)

\* an array of one record per row, each of one name:value pair per column
ShapedJson(names, types, rows) ==
    LET pair(cells, k) == escapeJsonString(names[k]) \o TxtColon
                          \o EncodeValue(types[k], cells[k])
        record(cells)  == TxtOpenObj
                          \o Join([k \in 1..Len(types) |-> pair(cells, k)],
                                  TxtComma)
                          \o TxtCloseObj
    IN  TxtOpenArr
        \o Join([i \in 1..Len(rows) |-> record(rows[i])], TxtComma)
        \o TxtCloseArr

\* C9: both serializers write "[]" for a result without rows, and for n
\* rows of m columns n records in row order, each of m name:value pairs in
\* column order, with single commas between and none trailing.
C9_SerializedShape ==
    \A mode \in {"materialized", "chunked"} :
        serOut[mode].done
        => /\ serOut[mode].json =
                ShapedJson(serIn.names, serIn.types, ResultRows(serIn))
           /\ ResultRows(serIn) = <<>> => serOut[mode].json = <<91, 93>>

\* three rows of two columns that share their name, serialized both ways
C9_Witness ==
    /\ serOut.materialized.done /\ serOut.chunked.done
    /\ Len(ResultRows(serIn)) = 3
    /\ Len(serIn.names) = 2
    /\ serIn.names[1] = serIn.names[2]

(***************************************************************************)
(* Properties of the handles (Spec).                                       *)
(***************************************************************************)
DbOps   == {"closeDatabase", "connect", "hasSpatialExtension"}
ConnOps == {"disconnect", "query", "execute", "prepare"}
StmtOps == BindOps \cup {"clearBindings", "executePrepared", "destroyPrepared"}

\* the lifecycle state, before this step, of the object the call is given
HandleState(op, h) ==
    CASE op \in DbOps /\ h \in DbAddrs     -> dbs[h].state
      [] op \in ConnOps /\ h \in ConnAddrs -> conns[h]
      [] op \in StmtOps /\ h \in StmtAddrs -> stmts[h].state
      [] OTHER -> "none"

\* what an operation answers a null handle with
InvalidHandleResponse(op, slot) ==
    CASE op = "executePrepared"       -> InvalidStatementResponse(slot)
      [] op \in {"query", "execute"}  -> InvalidConnectionText(slot)
      [] op = "prepare"               -> InvalidConnectionResponse(slot)
      [] op = "connect"               -> InvalidDatabaseResponse(slot)
      [] OTHER                        -> AndroidText(<<>>)

\* C10: an operation given a handle that has been destroyed answers as it
\* answers an invalid handle, and does not dereference the destroyed object.
C10_UseAfterDestroyDetected ==
    [][(call'.h # 0 /\ HandleState(call'.op, call'.h) = "destroyed")
       => /\ call'.deref = "none"
          /\ call'.fate = "returned"
          /\ ~call'.retBool /\ call'.retHandle = 0
          /\ WithResponse(call', InvalidHandleResponse(call'.op, call'.slot))
             = call']_vars

(***************************************************************************)
(* Properties of the calls' failure paths (Spec).                          *)
(***************************************************************************)
\* the operations that return a string (iOS execute: a boolean) and report
\* through the "ERROR:" sentinel or the error slot
TextOps == {"query", "execute", "executePrepared"}
\* the operations that return a new handle
CreateOps == {"openDatabase", "connect", "prepare"}

\* C11: an operation given the handle 0 / NULL returns its failure value
\* (a destroy operation just returns), calls no engine entry point,
\* dereferences nothing and leaves every object of the bridge as it was.
C11_NullHandleRejectedLocally ==
    [][(call'.h = 0 /\ call'.op \notin {"none", "openDatabase"})
       => /\ <<dbs, conns, stmts, crashed, maxBound>>' =
             <<dbs, conns, stmts, crashed, maxBound>>
          /\ call'.engine = <<>>
          /\ call'.deref = "none"
          /\ call'.fate = "returned"
          /\ call'.leaked = 0
          /\ ~call'.retBool /\ call'.retHandle = 0
          /\ call'.op \in TextOps => ErrorResponse(call')
          /\ (call'.op \in (TextOps \cup CreateOps) /\ call'.slot)
             => call'.errSet /\ call'.err # <<>>]_vars

\* executePrepared(0) while a live statement holds bound values
C11_Witness ==
    /\ call.op = "executePrepared" /\ call.h = 0
    /\ LiveStmt(1) /\ Len(stmts[1].bindings) >= 1
    /\ ErrorResponse(call)
\* C12: a create (openDatabase, connect, prepare) that fails because the
\* engine reports an error or throws returns 0 / NULL and leaves no object
\* it allocated behind; one the engine lets succeed returns a handle that
\* is not 0 / NULL.
C12_FailedCreateLeavesNothing ==
    (call.op \in CreateOps /\ call.fate = "returned" /\ call.engine # <<>>)
    => IF call.engineError
       THEN call.retHandle = 0 /\ call.leaked = 0
       ELSE call.retHandle # 0
SqlOps == {"query", "execute", "prepare"}

\* what the caller of a call sees of its outcome
ResponseOf(c) ==
    [retNull |-> c.retNull, text |-> c.text, errSet |-> c.errSet,
     err |-> c.err, errWrites |-> c.errWrites]

\* what the caller sees when the engine rejects the text of a call
RejectionResponses(op, slot) ==
    CASE op = "query"   -> { QueryResponse(f, slot) : f \in EngineFailures }
      [] op = "execute" -> { ExecuteResponse(f, slot) : f \in EngineFailures }
      [] OTHER -> { PrepareFailure(a, slot) :
                    a \in { x \in PrepareAnswers : x.kind # "ok" } }

\* C13: a null (or undecodable) SQL string given to query, execute or
\* prepare on a live connection is refused before any engine
\* call, and what the caller gets differs from everything it gets when the
\* engine rejects a well-formed text (on iOS: a caller that passes a slot).
C13_MalformedSqlToldApart ==
    (call.op \in SqlOps /\ LiveConn(call.h) /\ call.sqlNull
     /\ (bridge = "ios" => call.slot))
    => /\ call.engine = <<>>
       /\ call.retHandle = 0 /\ ~call.retBool
       /\ ResponseOf(call) \notin RejectionResponses(call.op, call.slot)
\* C14: an exception raised while an operation runs on live objects (the
\* engine throws, or a bind with a valid index cannot grow the store) ends
\* as the operation's failure result: the call returns, and nothing
\* propagates to the caller's runtime.
C14_NoExceptionCrossesBoundary ==
    (call.op # "none" /\ call.deref \in {"none", "live"}
     /\ ~(call.op \in BindOps /\ call.index < 1))
    => call.fate = "returned" /\ ~crashed
\* C15: when the engine opens the database, openDatabase returns a live
\* handle whether the extension load succeeds or fails; the probe on a live
\* handle answers true exactly when the load of that open succeeded, false
\* for a null handle, and its answer cannot change while the handle lives.
C15_ExtensionLoadSeenOnlyByProbe ==
    /\ []((call.op = "openDatabase" /\ ~call.engineError)
          => call.retHandle # 0 /\ LiveDb(call.retHandle))
    /\ []((call.op = "hasSpatialExtension" /\ call.fate = "returned")
          => /\ call.h = 0 => ~call.retBool
             /\ call.deref = "live" => call.retBool = dbs[call.h].loadOk)
    /\ [][\A a \in DbAddrs :
            (dbs[a].state = "live" /\ dbs'[a].state = "live")
            => dbs'[a] = dbs[a]]_vars

\* a database opened although its extension load failed, probed: false
C15_Witness ==
    /\ bridge = "ios"
    /\ call.op = "hasSpatialExtension" /\ call.deref = "live"
    /\ LiveDb(call.h) /\ ~dbs[call.h].loadOk
    /\ ~call.retBool
\* the call's return value says success: a handle that is not NULL, true
\* (execute), a string that is not NULL
ReturnedSuccess(c) ==
    CASE c.op \in CreateOps -> c.retHandle # 0
      [] c.op = "execute"   -> c.retBool
      [] OTHER              -> ~c.retNull

C17_EngineErrorVerbatim ==
    (call.op \in TextOps /\ call.fate = "returned"
     /\ call.engineKind = "error")
    => IF bridge = "android"
       THEN call.text = TxtErrorPrefix \o call.engineMsg
       ELSE call.slot => (call.errSet /\ call.err = call.engineMsg)
\* the engine actions of the operations
PrimaryFns == {"Open", "Connection", "Query", "Prepare", "Execute"}

\* the engine action of the call threw or answered with an error
ActionFailed(c) ==
    IF c.op \in CreateOps THEN c.engineError
    ELSE c.engineKind \in {"throw", "error"}

\* C18: a call attempts its engine action (open, connect, query, prepare,
\* execute) at most once; when the action fails, it is the last thing the
\* call asks of the engine, and the call ends with one failure report: the
\* failure return value, and on iOS one write of a supplied error slot.
C18_NoRetryOneReport ==
    call.fate = "returned"
    => /\ Cardinality({k \in 1..Len(call.engine) :
                         call.engine[k].fn \in PrimaryFns}) <= 1
       /\ ActionFailed(call)
          => /\ Len(call.engine) = 1
             /\ call.retHandle = 0 /\ ~call.retBool
             /\ call.op \in TextOps => ErrorResponse(call)
             /\ call.errWrites =
                  (IF bridge = "ios" /\ call.slot THEN 1 ELSE 0)

\* execute on a live connection, rejected by the engine: one Query call,
\* one "ERROR:" string
C18_Witness ==
    /\ bridge = "android"
    /\ call.op = "execute" /\ call.deref = "live"
    /\ call.engineKind = "error"
    /\ Len(call.engine) = 1
    /\ call.text = TxtErrorPrefix \o EngineErrorMsg
(***************************************************************************)
(* Properties of the encoding of a value (EncSpec).                        *)
(***************************************************************************)
\* the one value of an EncSpec result, its type, and the text a serializer
\* wrote for it: what stands between [{"a": and }]
EncCell == serIn.chunks[1][1][1]
EncType == serIn.types[1]
EncPrefix == <<91, 123, 34, 97, 34, 58>>
EncSuffix == <<125, 93>>
EncWritten(mode) ==
    SubSeq(serOut[mode].json, Len(EncPrefix) + 1,
           Len(serOut[mode].json) - Len(EncSuffix))
EncFramed(mode) ==
    /\ IsPrefix(EncPrefix, serOut[mode].json)
    /\ Len(serOut[mode].json) >= Len(EncPrefix) + Len(EncSuffix)
    /\ SubSeq(serOut[mode].json, Len(serOut[mode].json) - 1,
              Len(serOut[mode].json)) = EncSuffix

\* C19: a null value of any column type (boolean, every integer width,
\* float, double, any other type) is written as the bare token null by the
\* materialized and by the chunked serializer.
C19_NullIsBareToken ==
    \A mode \in {"materialized", "chunked"} :
        (serOut[mode].done /\ EncCell.null)
        => /\ EncFramed(mode)
           /\ EncWritten(mode) = <<110, 117, 108, 108>>

\* a null of a type of the default branch, written by both serializers
C19_Witness ==
    /\ serOut.materialized.done /\ serOut.chunked.done
    /\ EncType = "HUGEINT" /\ EncCell.null
    /\ serOut.chunked.json = EncPrefix \o <<110, 117, 108, 108>> \o EncSuffix
\* reading a decimal literal back: the value of a text of at most twenty
\* digits as three limbs of 24 bits, most significant first
IsDigits(text) == \A k \in 1..Len(text) : text[k] \in 48..57
MulTenAdd(acc, d) ==
    LET lo == acc[3] * 10 + d
        mi == acc[2] * 10 + (lo \div 16777216)
        hi == acc[1] * 10 + (mi \div 16777216)
    IN  <<hi % 16777216, mi % 16777216, lo % 16777216>>
RECURSIVE ParseDecimal(_, _)
ParseDecimal(text, n) ==
    IF n = 0 THEN <<0, 0, 0>>
    ELSE MulTenAdd(ParseDecimal(text, n - 1), text[n] - 48)
\* the unsigned value of at most eight big-endian bytes, as limbs
Limbs(v) ==
    LET b == [k \in 1..(9 - Len(v)) |-> 0] \o v
    IN  << b[1] * 65536 + b[2] * 256 + b[3],
           b[4] * 65536 + b[5] * 256 + b[6],
           b[7] * 65536 + b[8] * 256 + b[9] >>
AddLimbs(a, b) ==
    LET lo == a[3] + b[3]
        mi == a[2] + b[2] + (lo \div 16777216)
        hi == a[1] + b[1] + (mi \div 16777216)
    IN  <<hi % 16777216, mi % 16777216, lo % 16777216>>
\* 2^(8w) as limbs, for w < 9
TwoToThe8(w) == Limbs(<<1>> \o [k \in 1..w |-> 0])
\* a text of one to twenty digits without a leading zero, or the text 0,
\* whose value is that of the bytes v
DecimalOf(text, v) ==
    /\ Len(text) \in 1..20
    /\ IsDigits(text)
    /\ (Len(text) > 1 => text[1] # 48)
    /\ ParseDecimal(text, Len(text)) = Limbs(v)
\* a minus sign and the magnitude of the negative two's-complement value v:
\* a text of digits m with m + v = 2^(8 * Len(v))
NegativeDecimalOf(text, v) ==
    /\ Len(text) \in 2..20
    /\ text[1] = 45
    /\ IsDigits(Tail(text))
    /\ text[2] # 48
    /\ AddLimbs(ParseDecimal(Tail(text), Len(text) - 1), Limbs(v))
           = TwoToThe8(Len(v))

\* C20: a signed integer of 8, 16, 32 or 64 bits is written as the decimal
\* literal of its value, an unsigned one as the decimal literal of its
\* unsigned value, never negative, up to 18446744073709551615; no digit is
\* lost at either end of the 64-bit ranges.
C20_IntegerEncodingExact ==
    \A mode \in {"materialized", "chunked"} :
        (serOut[mode].done /\ ~EncCell.null
         /\ EncType \in SignedTypes \cup UnsignedTypes)
        => /\ EncFramed(mode)
           /\ IF EncType \in SignedTypes /\ EncCell.v[1] >= 128
              THEN NegativeDecimalOf(EncWritten(mode), EncCell.v)
              ELSE DecimalOf(EncWritten(mode), EncCell.v)
           /\ (EncType = "BIGINT" /\ EncCell.v = <<128, 0, 0, 0, 0, 0, 0, 0>>)
              => EncWritten(mode) =
                     <<45, 57, 50, 50, 51, 51, 55, 50, 48, 51, 54, 56, 53, 52,
                       55, 55, 53, 56, 48, 56>>
           /\ (EncType = "BIGINT"
               /\ EncCell.v = <<127, 255, 255, 255, 255, 255, 255, 255>>)
              => EncWritten(mode) =
                     <<57, 50, 50, 51, 51, 55, 50, 48, 51, 54, 56, 53, 52,
                       55, 55, 53, 56, 48, 55>>

\* the largest unsigned 64-bit value, written by both serializers as
\* 18446744073709551615
C20_Witness ==
    /\ serOut.materialized.done /\ serOut.chunked.done
    /\ EncType = "UBIGINT" /\ ~EncCell.null
    /\ EncCell.v = <<255, 255, 255, 255, 255, 255, 255, 255>>
    /\ EncWritten("materialized") =
           <<49, 56, 52, 52, 54, 55, 52, 52, 48, 55, 51, 55, 48, 57, 53, 53,
             49, 54, 49, 53>>
    /\ EncWritten("chunked") = EncWritten("materialized")
(***************************************************************************)
(* Properties of escapeJsonString (EscSpec).                               *)
(***************************************************************************)
\* the byte a two-character escape stands for, 256 for none
EscapedByte(e) ==
    CASE e = 34  -> 34
      [] e = 92  -> 92
      [] e = 98  -> 8
      [] e = 102 -> 12
      [] e = 110 -> 10
      [] e = 114 -> 13
      [] e = 116 -> 9
      [] OTHER   -> 256
\* the value of a lower-case hex digit, 256 for any other byte
HexValue(d) ==
    IF d \in 48..57 THEN d - 48
    ELSE IF d \in 97..102 THEN d - 87 ELSE 256
\* reading the inside of a literal from position k on: the decoded bytes,
\* or <<256>> appended where the text is not that of a literal (a bare
\* quote or control byte, a dangling backslash, an unknown escape, a \u
\* without four hex digits)
RECURSIVE DecodeFrom(_, _)
DecodeFrom(body, k) ==
    IF k > Len(body) THEN <<>>
    ELSE IF body[k] = 92
    THEN IF k = Len(body) THEN <<256>>
         ELSE IF body[k + 1] = 117
         THEN IF /\ k + 5 <= Len(body)
                 /\ \A j \in 2..5 : HexValue(body[k + j]) < 16
                 /\ body[k + 2] = 48 /\ body[k + 3] = 48
              THEN <<HexValue(body[k + 4]) * 16 + HexValue(body[k + 5])>>
                   \o DecodeFrom(body, k + 6)
              ELSE <<256>>
         ELSE <<EscapedByte(body[k + 1])>> \o DecodeFrom(body, k + 2)
    ELSE IF body[k] = 34 \/ body[k] < 32 THEN <<256>>
    ELSE <<body[k]>> \o DecodeFrom(body, k + 1)
\* the decoded bytes of a double-quoted literal
DecodeLiteral(lit) ==
    IF Len(lit) >= 2 /\ lit[1] = 34 /\ lit[Len(lit)] = 34
    THEN DecodeFrom(SubSeq(lit, 2, Len(lit) - 1), 1)
    ELSE <<256>>

\* the escape the property prescribes for one byte
PrescribedEscape(b) ==
    IF b \in {34, 92}
    THEN <<92, b>>
    ELSE IF b \in {8, 12, 10, 13, 9}
    THEN <<92, CHOOSE e \in {98, 102, 110, 114, 116} : EscapedByte(e) = b>>
    ELSE IF b < 32
    THEN <<92, 117, 48, 48, IF b >= 16 THEN 49 ELSE 48,
           CHOOSE d \in (48..57) \cup (97..102) : HexValue(d) = b % 16>>
    ELSE <<b>>

\* C21: escapeJsonString(s) is a double-quoted literal in which quote,
\* backslash, backspace, form feed, newline, carriage return and tab are
\* two-character escapes, every other byte below 0x20 is \u and exactly
\* four hex digits, every other byte is unchanged; decoding it yields s.
C21_EscapeRoundTrips ==
    \A b \in {"android", "ios"} :
        serOut[b].done
        => /\ serOut[b].json =
                  <<34>> \o Flatten([k \in 1..Len(serIn) |->
                                        PrescribedEscape(serIn[k])]) \o <<34>>
           /\ DecodeLiteral(serOut[b].json) = serIn

\* a quote, a backslash and the byte 0x1f, escaped by both bridges
C21_Witness ==
    /\ serOut.android.done /\ serOut.ios.done
    /\ serIn = <<34, 92, 31>>
    /\ serOut.ios.json = <<34, 92, 34, 92, 92, 92, 117, 48, 48, 49, 102, 34>>
(***************************************************************************)
(* The two bridges against each other (StoreSpec).                         *)
(***************************************************************************)
\* C22: from the same store, a bind with any 32-bit index and any value has
\* the same outcomes (result and store) on the Android and the iOS bridge;
\* clearBindings and executePrepared leave the same store and hand the
\* engine the same value list on either bridge.
C22_BridgesAgreeOnStore ==
    [][/\ BindStep
          => AndroidBind(stmts[call'.h].bindings, call'.index, call'.value)
             = IosBind(stmts[call'.h].bindings, call'.index, call'.value)
       /\ ClearStep
          => /\ call'.fate = "returned"
             /\ stmts'[call'.h].bindings
                = [k \in 1..Len(stmts[call'.h].bindings) |-> NullValue]
       /\ ExecuteStep
          => /\ call'.fate = "returned"
             /\ call'.engine
                = << [fn |-> "Execute", values |-> stmts[call'.h].bindings] >>
             /\ stmts' = stmts]_vars
C24_NullStringBindsNull ==
    [][(BindStep /\ call'.op = "bindString" /\ call'.strNull
        /\ call'.index >= 1)
       => LET before == stmts[call'.h].bindings
              after  == stmts'[call'.h].bindings
              i      == call'.index
              asNull == IF bridge = "android"
                        THEN AndroidBind(before, i, <<"null", <<>>>>)
                        ELSE IosBind(before, i, <<"null", <<>>>>)
          IN  /\ [fate |-> IF call'.fate = "crashed" THEN "thrown"
                           ELSE call'.fate,
                  ret |-> call'.retBool, bindings |-> after] \in asNull
              /\ call'.fate = "returned"
                 => /\ call'.retBool
                    /\ Len(after) = Max(Len(before), i)
                    /\ after[i] = <<"null", <<>>>>
                    /\ \A k \in 1..Len(after) :
                          k # i => after[k] = (IF k <= Len(before)
                                               THEN before[k]
                                               ELSE <<"null", <<>>>>)]_vars

\* a null string bound over a slot that held a value, beside another value
C24_Witness ==
    /\ LiveStmt(1)
    /\ call.op = "bindString" /\ call.strNull /\ call.index = 1
    /\ call.fate = "returned" /\ call.retBool
    /\ call.prior # NullValue
    /\ Len(stmts[1].bindings) >= 2
    /\ stmts[1].bindings[1] = NullValue
    /\ stmts[1].bindings[2] # NullValue
(***************************************************************************)
(* The store a prepare creates (StoreSpec).                                *)
(***************************************************************************)
\* this step is a prepare with an SQL text on a live connection
PrepareStep == call'.op = "prepare" /\ LiveConn(call'.h) /\ ~call'.sqlNull

\* C26: a prepare the engine accepts returns a new statement whose store
\* has one slot for each parameter the engine declares, every slot null,
\* and touches no other statement; a prepare the engine rejects (it throws
\* or the statement carries an error) returns no handle and creates no
\* statement and no store.
C26_PrepareSizesStore ==
    [][PrepareStep
       => IF call'.engineError
          THEN /\ call'.retHandle = 0
               /\ call'.leaked = 0
               /\ stmts' = stmts
          ELSE /\ call'.retHandle \in DOMAIN stmts
               /\ call'.nParams \in 0..MaxParams
               /\ stmts[call'.retHandle].state # "live"
               /\ stmts'[call'.retHandle].state = "live"
               /\ stmts'[call'.retHandle].bindings
                  = [k \in 1..call'.nParams |-> <<"null", <<>>>>]
               /\ \A a \in DOMAIN stmts :
                     a # call'.retHandle => stmts'[a] = stmts[a]]_vars

\* a statement of MaxParams parameters, just prepared
C26_Witness ==
    /\ call.op = "prepare" /\ call.retHandle = 1 /\ call.nParams = MaxParams
    /\ LiveStmt(1)
    /\ Len(stmts[1].bindings) = MaxParams
    /\ \A k \in 1..MaxParams : stmts[1].bindings[k] = NullValue
(***************************************************************************)
(* Properties of objects side by side (PairSpec).                          *)
(***************************************************************************)
\* C25: closeDatabase on a live database returns whether none, one or two
\* connections are live; it destroys the database and leaves every
\* connection and every prepared statement as it was.
C25_CloseLeavesConnections ==
    [][(call'.op = "closeDatabase" /\ LiveDb(call'.h))
       => /\ call'.fate = "returned"
          /\ ~crashed'
          /\ dbs'[call'.h].state = "destroyed"
          /\ conns' = conns
          /\ stmts' = stmts]_vars

\* two connections live at once on a database that has just been closed,
\* and a statement of theirs live with its store
C25_Witness ==
    /\ call.op = "closeDatabase" /\ call.fate = "returned"
    /\ dbs[1].state = "destroyed"
    /\ conns[1] = "live" /\ conns[2] = "live"
    /\ LiveStmt(1) /\ Len(stmts[1].bindings) >= 1
\* this step is a bind, clear, execute or destroy on one of two live
\* statements
PairStep ==
    /\ call'.op \in StmtOps
    /\ \A a \in DOMAIN stmts : stmts[a].state = "live"
    /\ Cardinality(DOMAIN stmts) = 2
    /\ call'.h \in DOMAIN stmts

\* C27: with two prepared statements live, a bind, clear, execute or
\* destroy on one of them leaves the other statement's store, and every
\* connection, as it was; and what the operation returns and does to its
\* own store follows from its own store and arguments alone, so each
\* statement sees what it would see were its operations run on their own.
C27_StatementsIndependent ==
    [][PairStep
       => LET h      == call'.h
              before == stmts[h].bindings
              after  == stmts'[h].bindings
          IN  /\ \A a \in DOMAIN stmts : a # h => stmts'[a] = stmts[a]
              /\ conns' = conns
              /\ dbs' = dbs
              /\ call'.op \in BindOps
                 => [fate |-> IF call'.fate = "crashed" THEN "thrown"
                              ELSE call'.fate,
                     ret |-> call'.retBool, bindings |-> after]
                    \in (IF bridge = "android"
                         THEN AndroidBind(before, call'.index, call'.value)
                         ELSE IosBind(before, call'.index, call'.value))
              /\ call'.op = "clearBindings"
                 => after = [k \in 1..Len(before) |-> <<"null", <<>>>>]
              /\ call'.op = "executePrepared"
                 => /\ after = before
                    /\ call'.engine
                       = << [fn |-> "Execute", values |-> before] >>
              /\ call'.op = "destroyPrepared"
                 => stmts'[h].state = "destroyed"]_vars

\* statement 1 destroyed beside statement 2, which keeps the two values
\* bound to it; both connections live
C27_Witness ==
    /\ call.op = "destroyPrepared" /\ call.h = 1 /\ call.deref = "live"
    /\ stmts[1].state = "destroyed"
    /\ LiveStmt(2)
    /\ Len(stmts[2].bindings) = 2
    /\ stmts[2].bindings[1] # NullValue /\ stmts[2].bindings[2] # NullValue
    /\ conns[1] = "live" /\ conns[2] = "live"
(***************************************************************************)
(* The Android string channel (Spec).                                      *)
(***************************************************************************)
AndroidTextOps == {"query", "execute", "executePrepared"}

\* C28: on Android a query, execute or executePrepared that returns gives
\* a text: one that starts with ERROR: when the handle is null, the SQL
\* string is null or the engine failed, and otherwise one that starts with
\* [ and ends with ] (query, executePrepared) or starts with { (execute);
\* so a text starts with ERROR: exactly when the call failed.
C28_AndroidChannelUnambiguous ==
    (bridge = "android" /\ call.op \in AndroidTextOps
     /\ call.fate = "returned")
    => LET t      == call.text
           failed == call.engineKind # "rows"
           sentinel == Len(t) >= 6
                       /\ SubSeq(t, 1, 6) = <<69, 82, 82, 79, 82, 58>>
       IN  /\ ~call.retNull
           /\ Len(t) >= 2
           /\ failed <=> (call.h = 0 \/ call.sqlNull
                          \/ call.engineKind \in {"throw", "error"})
           /\ failed <=> sentinel
           /\ ~failed
              => IF call.op = "execute" THEN t[1] = 123
                 ELSE t[1] = 91 /\ t[Len(t)] = 93

\* an Android executePrepared that returned a row, and begins with [{
C28_Witness ==
    /\ bridge = "android" /\ call.op = "executePrepared"
    /\ call.fate = "returned" /\ call.engineKind = "rows"
    /\ Len(call.text) > 4
    /\ SubSeq(call.text, 1, 2) = <<91, 123>>
    /\ call.text[Len(call.text)] = 93

====
